---- MODULE Spec2Model ----
(***************************************************************************)
(* Model of ai-calendar-agent.py: the batch driver process_new_messages,   *)
(* the routing workflow process_calendar_request, handle_new_event with    *)
(* its date-time resolution, the calendar insert addEventToCal, and the    *)
(* two message normalisers get_message_body and get_sender.                *)
(*                                                                         *)
(* Representation of Python values:                                        *)
(*   None / Optional[x]       <<>> for None, <<x>> for a present value     *)
(*   decoded body text        a sequence of Unicode code points            *)
(*   base64 text              a sequence of Unicode code points            *)
(*   any other str            a string                                     *)
(*   float confidence_score   an integer number of hundredths (0.7 = 70)   *)
(*   datetime                 [wall, off]: wall-clock minutes since        *)
(*                            2025-01-01T00:00 and the UTC offset in       *)
(*                            minutes (<<>> when naive, <<o>> when aware)  *)
(*   dict with optional keys  a record; "k" \in DOMAIN r is 'k' in r       *)
(***************************************************************************)
EXTENDS Integers, Sequences, FiniteSets, TLC

VARIABLES
    machineTZ,      \* time zone of the machine running the script (environment)
    interpreter,    \* the CPython that runs the script (environment)
    mailbox,        \* INBOX/UNREAD messages of the mailbox, newest first
    poll,           \* number of runs of main() started so far
    pc,             \* position of the running script
    messages,       \* process_new_messages: the listed page of message ids
    idx,            \* process_new_messages: 1-based position of the for loop
    msg,            \* process_new_messages: the fetched raw message
    user_input,     \* process_calendar_request: argument (the body text)
    sender,         \* process_calendar_request: argument (the sender)
    route_result,   \* process_calendar_request: the router's answer
    details,        \* handle_new_event: the extractor's answer
    dt_obj,         \* handle_new_event: resolved start
    endtime,        \* handle_new_event: resolved end
    result,         \* value returned by process_calendar_request
    calendar,       \* events inserted into the calendar, oldest first
    extractorCalls, \* history: extractor calls made for the current message
    calCalls,       \* history: addEventToCal calls made for the current message
    pages,          \* history: the page listed by each poll
    failedAt        \* history: step at which the run raised, "" if none

vars == <<machineTZ, interpreter, mailbox, poll, pc, messages, idx, msg, user_input, sender,
          route_result, details, dt_obj, endtime, result, calendar,
          extractorCalls, calCalls, pages, failedAt>>

(***************************************************************************)
(* Bounds of the model.                                                    *)
(***************************************************************************)
MaxMailbox == 2     \* unread messages in the mailbox
MaxPolls == 2       \* runs of main()
MaxParts == 2       \* top-level MIME parts of an enumerated raw message
MaxHeaders == 2     \* headers of an enumerated raw message

None == <<>>
Some(x) == <<x>>

RECURSIVE SeqSum(_)
SeqSum(s) == IF s = <<>> THEN 0 ELSE Head(s) + SeqSum(Tail(s))

Max2(a, b) == IF a >= b THEN a ELSE b
Min2(a, b) == IF a <= b THEN a ELSE b

(***************************************************************************)
(* Civil time.  Minutes are counted from 2025-01-01T00:00; the model       *)
(* covers the year 2025.                                                   *)
(***************************************************************************)
DaysInMonth2025 == <<31, 28, 31, 30, 31, 30, 31, 31, 30, 31, 30, 31>>

\* minutes from 2025-01-01T00:00 to 2025-<mo>-<d>T<h>:<mi>
Minutes2025(mo, d, h, mi) ==
    (SeqSum(SubSeq(DaysInMonth2025, 1, mo - 1)) + (d - 1)) * 1440 + h * 60 + mi

\* America/New_York in 2025: EDT from 2025-03-09T07:00Z to 2025-11-02T06:00Z
EasternDSTStartUTC == Minutes2025(3, 9, 7, 0)
EasternDSTEndUTC == Minutes2025(11, 2, 6, 0)

\* UTC offset, in minutes, of zone z at the instant utc
ZoneOffset(z, utc) ==
    CASE z = "UTC" -> 0
      [] z = "Asia/Tokyo" -> 540
      [] z = "America/New_York" ->
            IF utc >= EasternDSTStartUTC /\ utc < EasternDSTEndUTC
            THEN -240 ELSE -300

MachineZones == {"UTC", "America/New_York", "Asia/Tokyo"}

\* time.localtime(u) as minutes: the machine's wall clock at instant u
LocalTime(z, u) == u + ZoneOffset(z, u)

\* The repository pins no Python version, and two library behaviours the
\* script relies on differ between CPython releases, independently of each
\* other: what astimezone does with a naive time that the machine's zone
\* skips, and what base64 decoding does with data that follows a pad
\* sequence.  The builds are CPython 3.11.7, 3.13.0 (3.12.1 behaves alike)
\* and 3.13.13.
Interpreters == {"cpython-3.11.7", "cpython-3.13.0", "cpython-3.13.13"}

\* builds whose astimezone also looks at the other fold of a naive time
GapUsesOtherFold(py) == py \in {"cpython-3.13.0", "cpython-3.13.13"}

\* builds whose base64 decoder stops at a completed pad sequence
PadEndsInput(py) == py \in {"cpython-3.11.7", "cpython-3.13.0"}

\* datetime._mktime: the instant of naive wall-clock time t with the given
\* fold on a machine in zone z
Mktime(z, t, fold) ==
    LET a == LocalTime(z, t) - t
        u1 == t - a
        t1 == LocalTime(z, u1)
        probe == IF fold = 1 THEN u1 + 1440 ELSE u1 - 1440
        b == IF t1 = t THEN LocalTime(z, probe) - probe ELSE t1 - u1
        u2 == t - b
        t2 == LocalTime(z, u2)
    IN  IF t1 = t /\ a = b THEN u1
        ELSE IF t2 = t THEN u2
        ELSE IF t1 = t THEN u1
        ELSE IF fold = 1 THEN Min2(u1, u2) ELSE Max2(u1, u2)

\* datetime._local_timezone of a naive datetime (fold = 0): the timestamp
\* whose local offset is used.  Older builds take _mktime as it is; newer
\* ones compute _mktime for the other fold as well and take that one when
\* it is the earlier of the two, which happens for a skipped time
LocalTimestamp(py, z, t) ==
    LET ts == Mktime(z, t, 0)
        ts2 == Mktime(z, t, 1)
    IN  IF GapUsesOtherFold(py) /\ ts2 # ts /\ ~(ts2 > ts) THEN ts2 ELSE ts

\* the fixed offset astimezone gives a naive datetime
LocalTimezoneOffset(py, z, t) == ZoneOffset(z, LocalTimestamp(py, z, t))

\* the instant a parsed datetime d denotes when astimezone is applied to it
UtcOf(py, z, d) ==
    IF d.off = None THEN d.wall - LocalTimezoneOffset(py, z, d.wall)
    ELSE d.wall - d.off[1]

\* datetime.fromisoformat(s).astimezone(pytz.timezone("America/New_York"))
\* for a parsed datetime d on a machine in zone z
AsEastern(py, z, d) ==
    LET utc == UtcOf(py, z, d)
        off == ZoneOffset("America/New_York", utc)
    IN  [wall |-> utc + off, off |-> Some(off)]

\* dt + timedelta(minutes = m) on a pytz-aware datetime: wall-clock
\* arithmetic, the tzinfo (and so the offset) is kept
PlusMinutes(dt, m) == [wall |-> dt.wall + m, off |-> dt.off]

DefaultDuration == 60

\* variant of EndTime that ignores duration_minutes
EndTimeAlwaysDefault(dt, duration_minutes) == PlusMinutes(dt, DefaultDuration)

\* lines 164-168: the end of the event
EndTime(dt, duration_minutes) ==
    IF duration_minutes = None
    THEN PlusMinutes(dt, DefaultDuration)
    ELSE PlusMinutes(dt, duration_minutes[1])

\* the instant of an aware datetime
Instant(dt) == dt.wall - dt.off[1]

(***************************************************************************)
(* base64.urlsafe_b64decode(data).decode('utf-8')                          *)
(***************************************************************************)
\* A str is the sequence of its code points.  urlsafe_b64decode first maps
\* '-' (45) to '+' (43) and '_' (95) to '/' (47).
UrlsafeTranslate(c) == IF c = 45 THEN 43 ELSE IF c = 95 THEN 47 ELSE c

\* 'A'-'Z', 'a'-'z', '0'-'9', '+' and '/'
IsB64Char(c) ==
    \/ (c >= 65 /\ c <= 90)
    \/ (c >= 97 /\ c <= 122)
    \/ (c >= 48 /\ c <= 57)
    \/ c = 43
    \/ c = 47

\* the 6-bit value of an alphabet character
B64Value(c) ==
    IF c >= 65 /\ c <= 90 THEN c - 65
    ELSE IF c >= 97 /\ c <= 122 THEN c - 97 + 26
    ELSE IF c >= 48 /\ c <= 57 THEN c - 48 + 52
    ELSE IF c = 43 THEN 62
    ELSE 63

DecodeError == [raised |-> TRUE, value |-> <<>>]
Returned(v) == [raised |-> FALSE, value |-> v]

\* str.encode('ascii') accepts exactly the code points below 128, the
\* control characters, the backtick and DEL included
IsAscii(c) == c >= 0 /\ c < 128

\* binascii.a2b_base64 in its default, non-strict mode.  A str argument is
\* first encoded as ASCII, which raises on any other character.  Characters
\* outside the alphabet are skipped and a trailing incomplete quad is an
\* error.  On the builds of PadEndsInput a completed pad sequence ends the
\* input; on the others the pad characters only count at the end, so data
\* after them is decoded as well.
RECURSIVE A2bBase64(_, _, _, _, _, _)
A2bBase64(py, s, quad_pos, leftchar, pads, out) ==
    IF \E i \in DOMAIN s : ~IsAscii(s[i]) THEN DecodeError
    ELSE IF s = <<>>
    THEN IF quad_pos # 0 /\ quad_pos + pads < 4 THEN DecodeError
         ELSE Returned(out)
    ELSE LET c == UrlsafeTranslate(Head(s)) IN
         IF c = 61
         THEN IF PadEndsInput(py) /\ quad_pos >= 2 /\ quad_pos + pads + 1 >= 4
              THEN Returned(out)
              ELSE A2bBase64(py, Tail(s), quad_pos, leftchar,
                             IF quad_pos >= 2 THEN pads + 1 ELSE pads, out)
         ELSE IF ~IsB64Char(c)
         THEN A2bBase64(py, Tail(s), quad_pos, leftchar, pads, out)
         ELSE LET v == B64Value(c) IN
              CASE quad_pos = 0 -> A2bBase64(py, Tail(s), 1, v, 0, out)
                [] quad_pos = 1 ->
                     A2bBase64(py, Tail(s), 2, v % 16, 0,
                               Append(out, leftchar * 4 + v \div 16))
                [] quad_pos = 2 ->
                     A2bBase64(py, Tail(s), 3, v % 4, 0,
                               Append(out, leftchar * 16 + v \div 4))
                [] quad_pos = 3 ->
                     A2bBase64(py, Tail(s), 0, 0, 0,
                               Append(out, leftchar * 64 + v))

IsCont(b) == b >= 128 /\ b <= 191

\* bytes.decode('utf-8'), strict: the code points, or an error on a byte
\* sequence that is not well-formed UTF-8
RECURSIVE Utf8Decode(_, _)
Utf8Decode(b, out) ==
    IF b = <<>> THEN Returned(out)
    ELSE LET b1 == b[1]
             n == Len(b)
         IN  IF b1 < 128
             THEN Utf8Decode(Tail(b), Append(out, b1))
             ELSE IF b1 >= 194 /\ b1 <= 223
             THEN IF n >= 2 /\ IsCont(b[2])
                  THEN Utf8Decode(SubSeq(b, 3, n),
                                  Append(out, (b1 - 192) * 64 + (b[2] - 128)))
                  ELSE DecodeError
             ELSE IF b1 >= 224 /\ b1 <= 239
             THEN IF /\ n >= 3
                     /\ b[2] >= (IF b1 = 224 THEN 160 ELSE 128)
                     /\ b[2] <= (IF b1 = 237 THEN 159 ELSE 191)
                     /\ IsCont(b[3])
                  THEN Utf8Decode(SubSeq(b, 4, n),
                                  Append(out, (b1 - 224) * 4096
                                              + (b[2] - 128) * 64
                                              + (b[3] - 128)))
                  ELSE DecodeError
             ELSE IF b1 >= 240 /\ b1 <= 244
             THEN IF /\ n >= 4
                     /\ b[2] >= (IF b1 = 240 THEN 144 ELSE 128)
                     /\ b[2] <= (IF b1 = 244 THEN 143 ELSE 191)
                     /\ IsCont(b[3])
                     /\ IsCont(b[4])
                  THEN Utf8Decode(SubSeq(b, 5, n),
                                  Append(out, (b1 - 240) * 262144
                                              + (b[2] - 128) * 4096
                                              + (b[3] - 128) * 64
                                              + (b[4] - 128)))
                  ELSE DecodeError
             ELSE DecodeError

\* base64.urlsafe_b64decode(data).decode('utf-8'): the text, or a raise
DecodeData(py, data) ==
    LET bytes == A2bBase64(py, data, 0, 0, 0, <<>>)
    IN  IF bytes.raised THEN DecodeError ELSE Utf8Decode(bytes.value, <<>>)

(***************************************************************************)
(* get_message_body and get_sender                                         *)
(***************************************************************************)
\* lines 211-214: the loop over the top-level parts; falls out of the loop
\* to the final return "" when no part qualifies
RECURSIVE ScanParts(_, _)
ScanParts(py, parts) ==
    IF parts = <<>> THEN Returned(<<>>)
    ELSE LET part == Head(parts) IN
         IF part.mimeType = "text/plain" /\ "data" \in DOMAIN part.body
         THEN DecodeData(py, part.body.data)
         ELSE ScanParts(py, Tail(parts))

get_message_body(py, message) ==
    LET payload == message.payload IN
    IF "parts" \in DOMAIN payload
    THEN ScanParts(py, payload.parts)
    ELSE IF "body" \in DOMAIN payload /\ "data" \in DOMAIN payload.body
    THEN DecodeData(py, payload.body.data)
    ELSE Returned(<<>>)

UnknownSender == "(Unknown sender)"

\* variant of ScanHeaders in which the last From header wins
RECURSIVE ScanHeadersLast(_)
ScanHeadersLast(headers) ==
    IF headers = <<>> THEN UnknownSender
    ELSE IF headers[Len(headers)].name = "From"
    THEN headers[Len(headers)].value
    ELSE ScanHeadersLast(SubSeq(headers, 1, Len(headers) - 1))

\* lines 222-225: the first header named From wins
RECURSIVE ScanHeaders(_)
ScanHeaders(headers) ==
    IF headers = <<>> THEN UnknownSender
    ELSE IF Head(headers).name = "From" THEN Head(headers).value
    ELSE ScanHeaders(Tail(headers))

get_sender(message) == ScanHeaders(message.payload.headers)

(***************************************************************************)
(* Raw messages (the Gmail message resource as far as the code reads it)   *)
(***************************************************************************)
NoData == [size |-> 0]
WithData(d) == [size |-> Len(d), data |-> d]

\* payload data as code points: "aGk=" ("hi"); "6Q==" (one byte 0xE9, not
\* UTF-8); "aGk" ("hi" without its padding); the empty string; "w6k="
\* (U+00E9); "8J-YgA==" (U+1F600, uses the url-safe '-'); "aGk=" followed
\* by U+00E9, which is not ASCII; "hi" with a double quote, a backtick,
\* U+0001 and DEL between its characters; and "aGk=aGk="
DataSamples ==
    { <<97, 71, 107, 61>>,
      <<54, 81, 61, 61>>,
      <<97, 71, 107>>,
      <<>>,
      <<119, 54, 107, 61>>,
      <<56, 74, 45, 89, 103, 65, 61, 61>>,
      <<97, 71, 107, 61, 233>>,
      <<97, 34, 71, 96, 1, 107, 127, 61>>,
      <<97, 71, 107, 61, 97, 71, 107, 61>> }

Header(n, v) == [name |-> n, value |-> v]

SampleMessages ==
    { [id |-> "m1",
       payload |-> [headers |-> <<Header("To", "me@example.com"),
                                  Header("From", "alice@example.com"),
                                  Header("From", "eve@example.com")>>,
                    body |-> NoData,
                    parts |-> <<[mimeType |-> "text/html",
                                 body |-> WithData(<<119, 54, 107, 61>>)],
                                [mimeType |-> "text/plain",
                                 body |-> WithData(<<97, 71, 107, 61>>)]>>]],
      [id |-> "m2",
       payload |-> [headers |-> <<Header("from", "bob@example.com")>>,
                    body |-> WithData(<<119, 54, 107, 61>>)]],
      [id |-> "m3",
       payload |-> [headers |-> <<Header("From", "carol@example.com")>>,
                    body |-> WithData(<<54, 81, 61, 61>>)]] }

\* sequences of length at most n over S
SeqsUpTo(S, n) == UNION { [1..k -> S] : k \in 0..n }

IsInjective(f) == \A i, j \in DOMAIN f : f[i] = f[j] => i = j

\* a mailbox holds each message once
Mailboxes == { mb \in SeqsUpTo(SampleMessages, MaxMailbox) : IsInjective(mb) }

(***************************************************************************)
(* Answers of the two model calls                                          *)
(***************************************************************************)
ConfidenceThreshold == 70

RouterAnswers ==
    [request_type : {"new_event", "other"},
     confidence_score : {30, 69, 70, 85},
     description : {"cleaned request"}]

NaiveDate(w) == [valid |-> TRUE, wall |-> w, off |-> None]
AwareDate(w, o) == [valid |-> TRUE, wall |-> w, off |-> Some(o)]
\* a string datetime.fromisoformat rejects, such as "not-a-date"
NotADate == [valid |-> FALSE, wall |-> 0, off |-> None]

\* 2025-03-27T15:00, 2025-01-15T09:00, 2025-03-09T01:30, 2025-03-09T02:30
\* (skipped in US Eastern), 2025-03-09T03:30 and 2025-11-02T01:30 (repeated
\* in US Eastern)
WallSamples ==
    { Minutes2025(3, 27, 15, 0), Minutes2025(1, 15, 9, 0),
      Minutes2025(3, 9, 1, 30), Minutes2025(3, 9, 2, 30),
      Minutes2025(3, 9, 3, 30), Minutes2025(11, 2, 1, 30) }

OffsetSamples == {-240, 0, 60}

DateSamples ==
    {NotADate} \cup { NaiveDate(w) : w \in WallSamples }
               \cup { AwareDate(w, o) : w \in WallSamples, o \in OffsetSamples }

DurationSamples == {None} \cup { Some(d) : d \in {-30, 0, 1, 45, 90} }

NewEventDetails(date, duration_minutes, location) ==
    [name |-> "Chat", date |-> date, duration_minutes |-> duration_minutes,
     location |-> location, description |-> "Catch up"]

\* what the extractor may answer in the enumeration of handle_new_event
AllDetails ==
    { NewEventDetails(d, m, l) :
        d \in DateSamples, m \in DurationSamples,
        l \in {None, Some("Library")} }

\* what the extractor may answer inside the batch
BatchDetails ==
    { NewEventDetails(d, m, None) :
        d \in {NotADate, NaiveDate(Minutes2025(3, 27, 15, 0))},
        m \in {None, Some(45)} }

(***************************************************************************)
(* The calendar                                                            *)
(***************************************************************************)
\* lines 55-72: the event body addEventToCal sends
EventBody(name, location, description, startTime, endTime, attendees) ==
    [summary |-> name, location |-> location, description |-> description,
     start |-> [dateTime |-> startTime], end |-> [dateTime |-> endTime],
     attendees |-> attendees,
     reminders |-> [useDefault |-> FALSE,
                    overrides |-> <<[method |-> "popup", minutes |-> 10]>>]]

\* line 171: the arguments handle_new_event passes
EventOf(d, dt, et, s) ==
    EventBody(d.name, IF d.location = None THEN "" ELSE d.location[1],
              d.description, dt, et, <<[email |-> s]>>)

\* lines 173-177
CalendarResponse(d, s) ==
    [success |-> TRUE,
     message |-> <<"Created new event", d.name, d.date, s>>,
     calendar_link |-> Some(<<"calendar://new?event=", d.name>>)]

MaxResults == 10

\* line 199-201: the first MaxResults unread message ids
ListPage(mb) ==
    [i \in 1..(IF Len(mb) < MaxResults THEN Len(mb) ELSE MaxResults) |-> mb[i].id]

\* the message the mailbox returns for an id
MessageById(mb, id) == CHOOSE m \in { mb[i] : i \in DOMAIN mb } : m.id = id

(***************************************************************************)
(* The script as a state machine                                           *)
(***************************************************************************)
locals == <<msg, user_input, sender, route_result, details, dt_obj, endtime,
            result, extractorCalls, calCalls>>
env == <<machineTZ, interpreter, mailbox>>

ClearLocals ==
    /\ msg' = None
    /\ user_input' = None
    /\ sender' = None
    /\ route_result' = None
    /\ details' = None
    /\ dt_obj' = None
    /\ endtime' = None
    /\ result' = None
    /\ extractorCalls' = 0
    /\ calCalls' = 0

InitLocals ==
    /\ msg = None
    /\ user_input = None
    /\ sender = None
    /\ route_result = None
    /\ details = None
    /\ dt_obj = None
    /\ endtime = None
    /\ result = None
    /\ extractorCalls = 0
    /\ calCalls = 0

Init ==
    /\ machineTZ \in MachineZones
    /\ interpreter \in Interpreters
    /\ mailbox \in Mailboxes
    /\ poll = 0
    /\ pc = "idle"
    /\ messages = <<>>
    /\ idx = 0
    /\ InitLocals
    /\ calendar = <<>>
    /\ pages = <<>>
    /\ failedAt = ""

\* an exception leaves every frame up to main(): the run ends where it is
Raise(step) ==
    /\ pc' = "crashed"
    /\ failedAt' = step

\* lines 227-229 and 196-197: a run of the script starts
StartRun ==
    /\ pc \in {"idle", "done", "crashed"}
    /\ poll < MaxPolls
    /\ poll' = poll + 1
    /\ pc' = "list"
    /\ messages' = <<>>
    /\ idx' = 0
    /\ ClearLocals
    /\ failedAt' = ""
    /\ UNCHANGED <<env, calendar, pages>>

\* lines 199-201: the unread messages are listed
ListUnread ==
    /\ pc = "list"
    /\ messages' = ListPage(mailbox)
    /\ pages' = Append(pages, ListPage(mailbox))
    /\ idx' = 1
    /\ pc' = "loop"
    /\ UNCHANGED <<env, poll, locals, calendar, failedAt>>

\* lines 196-201: credentials, the service or the listing raise
ListFail ==
    /\ pc = "list"
    /\ Raise("list")
    /\ UNCHANGED <<env, poll, messages, idx, locals, calendar, pages>>

\* line 203: the for loop is exhausted and the run ends
LoopExit ==
    /\ pc = "loop"
    /\ idx > Len(messages)
    /\ pc' = "done"
    /\ UNCHANGED <<env, poll, messages, idx, locals, calendar, pages, failedAt>>

\* line 204: the next message is fetched
FetchMessage ==
    /\ pc = "loop"
    /\ idx <= Len(messages)
    /\ msg' = Some(MessageById(mailbox, messages[idx]))
    /\ pc' = "normalize"
    /\ UNCHANGED <<env, poll, messages, idx, user_input, sender, route_result,
                   details, dt_obj, endtime, result, extractorCalls, calCalls,
                   calendar, pages, failedAt>>

\* line 204: the fetch raises
FetchFail ==
    /\ pc = "loop"
    /\ idx <= Len(messages)
    /\ Raise("fetch")
    /\ UNCHANGED <<env, poll, messages, idx, locals, calendar, pages>>

\* line 206: the arguments of process_calendar_request are evaluated
Normalize ==
    /\ pc = "normalize"
    /\ ~get_message_body(interpreter, msg[1]).raised
    /\ user_input' = Some(get_message_body(interpreter, msg[1]).value)
    /\ sender' = Some(get_sender(msg[1]))
    /\ pc' = "route"
    /\ UNCHANGED <<env, poll, messages, idx, msg, route_result, details,
                   dt_obj, endtime, result, extractorCalls, calCalls,
                   calendar, pages, failedAt>>

\* line 206: decoding the body raises
NormalizeFail ==
    /\ pc = "normalize"
    /\ get_message_body(interpreter, msg[1]).raised
    /\ Raise("normalize")
    /\ UNCHANGED <<env, poll, messages, idx, locals, calendar, pages>>

\* line 183: the router answers
Route ==
    /\ pc = "route"
    /\ \E r \in RouterAnswers : route_result' = Some(r)
    /\ pc' = "gate"
    /\ UNCHANGED <<env, poll, messages, idx, msg, user_input, sender, details,
                   dt_obj, endtime, result, extractorCalls, calCalls,
                   calendar, pages, failedAt>>

\* line 183: the router call raises
RouteFail ==
    /\ pc = "route"
    /\ Raise("route")
    /\ UNCHANGED <<env, poll, messages, idx, locals, calendar, pages>>

\* variant of LowConfidence that also stops the threshold itself
LowConfidenceOrEqual(r) == r.confidence_score <= ConfidenceThreshold

\* line 185
LowConfidence(r) == r.confidence_score < ConfidenceThreshold

\* line 189
IsNewEvent(r) == r.request_type = "new_event"

\* process_calendar_request returns v
ReturnValue(v) ==
    /\ result' = v
    /\ pc' = "returned"

\* lines 185-187: low confidence, return None
GateLowConfidence ==
    /\ pc = "gate"
    /\ LowConfidence(route_result[1])
    /\ ReturnValue(None)
    /\ UNCHANGED <<env, poll, messages, idx, msg, user_input, sender,
                   route_result, details, dt_obj, endtime, extractorCalls,
                   calCalls, calendar, pages, failedAt>>

\* variant of GateNotSupported that goes on to the extraction
GateNotSupportedProceeds ==
    /\ pc = "gate"
    /\ ~LowConfidence(route_result[1])
    /\ ~IsNewEvent(route_result[1])
    /\ pc' = "extract"
    /\ UNCHANGED <<env, poll, messages, idx, locals, calendar, pages, failedAt>>

\* lines 191-193: request type not supported, return None
GateNotSupported ==
    /\ pc = "gate"
    /\ ~LowConfidence(route_result[1])
    /\ ~IsNewEvent(route_result[1])
    /\ ReturnValue(None)
    /\ UNCHANGED <<env, poll, messages, idx, msg, user_input, sender,
                   route_result, details, dt_obj, endtime, extractorCalls,
                   calCalls, calendar, pages, failedAt>>

\* lines 189-190: handle_new_event is entered
GateNewEvent ==
    /\ pc = "gate"
    /\ ~LowConfidence(route_result[1])
    /\ IsNewEvent(route_result[1])
    /\ pc' = "extract"
    /\ UNCHANGED <<env, poll, messages, idx, locals, calendar, pages, failedAt>>

\* lines 146-157: the extractor answers with one of D
Extract(D) ==
    /\ pc = "extract"
    /\ \E d \in D : details' = Some(d)
    /\ extractorCalls' = extractorCalls + 1
    /\ pc' = "resolve"
    /\ UNCHANGED <<env, poll, messages, idx, msg, user_input, sender,
                   route_result, dt_obj, endtime, result, calCalls, calendar,
                   pages, failedAt>>

ExtractInBatch == Extract(BatchDetails)
ExtractAny == Extract(AllDetails)

\* lines 146-157: the extractor call raises
ExtractFail ==
    /\ pc = "extract"
    /\ extractorCalls' = extractorCalls + 1
    /\ Raise("extract")
    /\ UNCHANGED <<env, poll, messages, idx, msg, user_input, sender,
                   route_result, details, dt_obj, endtime, result, calCalls,
                   calendar, pages>>

\* lines 161-168: start and end are resolved
Resolve ==
    /\ pc = "resolve"
    /\ details[1].date.valid
    /\ dt_obj' = Some(AsEastern(interpreter, machineTZ, details[1].date))
    /\ endtime' = Some(EndTime(AsEastern(interpreter, machineTZ,
                                         details[1].date),
                               details[1].duration_minutes))
    /\ pc' = "insert"
    /\ UNCHANGED <<env, poll, messages, idx, msg, user_input, sender,
                   route_result, details, result, extractorCalls, calCalls,
                   calendar, pages, failedAt>>

\* line 162: fromisoformat raises ValueError
ResolveFail ==
    /\ pc = "resolve"
    /\ ~details[1].date.valid
    /\ Raise("resolve")
    /\ UNCHANGED <<env, poll, messages, idx, locals, calendar, pages>>

\* an inserted event, tagged with the run and message that caused it
Inserted(ev) == [event |-> ev, poll |-> poll, id |-> messages[idx]]

\* variant of AddEventToCal that never sends the insert
AddEventToCalNotSent ==
    /\ pc = "insert"
    /\ calCalls' = calCalls + 1
    /\ pc' = "respond"
    /\ UNCHANGED <<env, poll, messages, idx, msg, user_input, sender,
                   route_result, details, dt_obj, endtime, result,
                   extractorCalls, calendar, pages, failedAt>>

\* lines 171 and 50-74: the event is inserted
AddEventToCal ==
    /\ pc = "insert"
    /\ calCalls' = calCalls + 1
    /\ calendar' = Append(calendar,
                          Inserted(EventOf(details[1], dt_obj[1], endtime[1],
                                           sender[1])))
    /\ pc' = "respond"
    /\ UNCHANGED <<env, poll, messages, idx, msg, user_input, sender,
                   route_result, details, dt_obj, endtime, result,
                   extractorCalls, pages, failedAt>>

\* lines 171 and 50-74: credentials, the service or the insert raise
AddEventToCalFail ==
    /\ pc = "insert"
    /\ calCalls' = calCalls + 1
    /\ Raise("insert")
    /\ UNCHANGED <<env, poll, messages, idx, msg, user_input, sender,
                   route_result, details, dt_obj, endtime, result,
                   extractorCalls, calendar, pages>>

\* line 74: the calendar creates the event, but execute() raises (the
\* response is lost on the way back)
AddEventToCalLost ==
    /\ pc = "insert"
    /\ calCalls' = calCalls + 1
    /\ calendar' = Append(calendar,
                          Inserted(EventOf(details[1], dt_obj[1], endtime[1],
                                           sender[1])))
    /\ Raise("insert")
    /\ UNCHANGED <<env, poll, messages, idx, msg, user_input, sender,
                   route_result, details, dt_obj, endtime, result,
                   extractorCalls, pages>>

\* lines 173-177: the response is returned
Respond ==
    /\ pc = "respond"
    /\ ReturnValue(Some(CalendarResponse(details[1], sender[1])))
    /\ UNCHANGED <<env, poll, messages, idx, msg, user_input, sender,
                   route_result, details, dt_obj, endtime, extractorCalls,
                   calCalls, calendar, pages, failedAt>>

\* variant of LoopAdvance that marks the processed message as read
LoopAdvanceMarkRead ==
    /\ pc = "returned"
    /\ idx' = idx + 1
    /\ ClearLocals
    /\ pc' = "loop"
    /\ mailbox' = SelectSeq(mailbox, LAMBDA m : m.id # messages[idx])
    /\ UNCHANGED <<machineTZ, interpreter, poll, messages, calendar, pages,
                   failedAt>>

\* line 203: the returned value is dropped and the loop moves on
LoopAdvance ==
    /\ pc = "returned"
    /\ idx' = idx + 1
    /\ ClearLocals
    /\ pc' = "loop"
    /\ UNCHANGED <<env, poll, messages, calendar, pages, failedAt>>

Next ==
    \/ StartRun
    \/ ListUnread
    \/ ListFail
    \/ LoopExit
    \/ FetchMessage
    \/ FetchFail
    \/ Normalize
    \/ NormalizeFail
    \/ Route
    \/ RouteFail
    \/ GateLowConfidence
    \/ GateNotSupported
    \/ GateNewEvent
    \/ ExtractInBatch
    \/ ExtractFail
    \/ Resolve
    \/ ResolveFail
    \/ AddEventToCal
    \/ AddEventToCalFail
    \/ AddEventToCalLost
    \/ Respond
    \/ LoopAdvance

Spec == Init /\ [][Next]_vars

(***************************************************************************)
(* handle_new_event on its own: one call, entered from a passed gate, with *)
(* the full range of extractor answers                                     *)
(***************************************************************************)
InitEvent ==
    /\ machineTZ \in MachineZones
    /\ interpreter \in Interpreters
    /\ \E m \in SampleMessages :
          /\ ~get_message_body(interpreter, m).raised
          /\ mailbox = <<m>>
          /\ msg = Some(m)
          /\ user_input = Some(get_message_body(interpreter, m).value)
          /\ sender = Some(get_sender(m))
    /\ poll = 1
    /\ pc = "extract"
    /\ messages = ListPage(mailbox)
    /\ idx = 1
    /\ \E r \in RouterAnswers :
          /\ ~LowConfidence(r)
          /\ IsNewEvent(r)
          /\ route_result = Some(r)
    /\ details = None
    /\ dt_obj = None
    /\ endtime = None
    /\ result = None
    /\ extractorCalls = 0
    /\ calCalls = 0
    /\ calendar = <<>>
    /\ pages = <<ListPage(mailbox)>>
    /\ failedAt = ""

NextEvent ==
    \/ ExtractAny
    \/ ExtractFail
    \/ Resolve
    \/ ResolveFail
    \/ AddEventToCal
    \/ AddEventToCalFail
    \/ AddEventToCalLost
    \/ Respond

SpecEvent == InitEvent /\ [][NextEvent]_vars

(***************************************************************************)
(* get_message_body and get_sender on their own, over enumerated raw       *)
(* messages                                                                *)
(***************************************************************************)
HeaderSamples ==
    { Header(n, v) : n \in {"From", "from", "To"},
                     v \in {"alice@example.com", "bob@example.com"} }

BodySamples == {NoData} \cup { WithData(d) : d \in DataSamples }

\* a container part: its own text/plain child is not a top-level part
NestedPart ==
    [mimeType |-> "multipart/alternative", body |-> NoData,
     parts |-> <<[mimeType |-> "text/plain",
                  body |-> WithData(<<97, 71, 107, 61>>)]>>]

PartSamples ==
    { [mimeType |-> t, body |-> b] : t \in {"text/plain", "text/html"},
                                     b \in BodySamples }
    \cup {NestedPart}

PayloadShapes(h) ==
    {[headers |-> h]}
    \cup { [headers |-> h, body |-> b] : b \in BodySamples }
    \cup { [headers |-> h, body |-> b, parts |-> ps] :
             b \in BodySamples, ps \in SeqsUpTo(PartSamples, MaxParts) }

EnumeratedMessages ==
    { [id |-> "e", payload |-> p] :
        p \in PayloadShapes(<<Header("From", "alice@example.com")>>)
              \cup { [headers |-> h, body |-> NoData] :
                       h \in SeqsUpTo(HeaderSamples, MaxHeaders) } }

InitNormalize ==
    /\ machineTZ = "UTC"
    /\ interpreter \in Interpreters
    /\ \E m \in EnumeratedMessages :
          /\ mailbox = <<m>>
          /\ msg = Some(m)
    /\ poll = 1
    /\ pc = "normalize"
    /\ messages = ListPage(mailbox)
    /\ idx = 1
    /\ user_input = None
    /\ sender = None
    /\ route_result = None
    /\ details = None
    /\ dt_obj = None
    /\ endtime = None
    /\ result = None
    /\ extractorCalls = 0
    /\ calCalls = 0
    /\ calendar = <<>>
    /\ pages = <<ListPage(mailbox)>>
    /\ failedAt = ""

NextNormalize ==
    \/ Normalize
    \/ NormalizeFail

SpecNormalize == InitNormalize /\ [][NextNormalize]_vars

(***************************************************************************)
(* Properties                                                              *)
(***************************************************************************)
\* the calendar entries one processing of one message caused
EntriesOf(p, id) == { i \in DOMAIN calendar :
                        calendar[i].poll = p /\ calendar[i].id = id }

\* a message of the page is being, or was last, processed
InMessage == idx \in 1..Len(messages)

MessageSteps == {"fetch", "normalize", "route", "extract", "resolve", "insert"}

\* C1: batch isolation - when the processing of a message fails, the run
\* still processes every later message of the page: a run never ends with
\* messages of the page left after the one that failed.
C1_BatchIsolation ==
    (pc = "crashed" /\ failedAt \in MessageSteps) => idx >= Len(messages)

\* C2: confidence gate - from the gate, a confidence below the threshold
\* returns None whatever the request type, a confidence at or above it with
\* request type other returns None, and a confidence at or above it
\* (the threshold itself included) with request type new_event enters the
\* extraction; a skip makes no extractor call.
C2_ConfidenceGate ==
    [][pc = "gate" =>
         LET r == route_result[1]
             skipped == /\ pc' = "returned"
                        /\ result' = None
                        /\ extractorCalls' = 0
         IN  /\ r.confidence_score < ConfidenceThreshold => skipped
             /\ (r.confidence_score >= ConfidenceThreshold
                 /\ r.request_type = "other") => skipped
             /\ (r.confidence_score >= ConfidenceThreshold
                 /\ r.request_type = "new_event") => pc' = "extract"]_vars

C2_Witness ==
    /\ pc = "extract"
    /\ route_result[1].confidence_score = ConfidenceThreshold
    /\ route_result[1].request_type = "new_event"

\* C3: no side effect without a passed gate - for one message the calendar
\* insert is called at most once, and only after the router answered
\* new_event with a confidence at or above the threshold, the extractor
\* returned and the start parsed; a skipped message has no calendar call
\* and no extractor call.
C3_NoSideEffectWithoutGate ==
    /\ calCalls <= 1
    /\ \A p \in 1..poll : \A i \in DOMAIN mailbox :
          Cardinality(EntriesOf(p, mailbox[i].id)) <= 1
    /\ InMessage => Cardinality(EntriesOf(poll, messages[idx])) <= calCalls
    /\ calCalls = 1 =>
          /\ route_result # None
          /\ route_result[1].confidence_score >= ConfidenceThreshold
          /\ route_result[1].request_type = "new_event"
          /\ extractorCalls = 1
          /\ details # None
          /\ details[1].date.valid
          /\ dt_obj # None
    /\ (pc = "returned" /\ result = None) =>
          /\ calCalls = 0
          /\ extractorCalls = 0
          /\ EntriesOf(poll, messages[idx]) = {}

C3_Witness ==
    /\ pc = "respond"
    /\ calCalls = 1
    /\ EntriesOf(poll, messages[idx]) # {}

\* C4 as stated: when the processing of a message fails at any step, the
\* calendar insert included, no event exists for it and nothing was
\* returned; a response is returned only after the insert for that
\* message, and its success field is never false.
C4_Atomicity ==
    /\ (pc = "crashed" /\ failedAt \in MessageSteps) =>
          /\ EntriesOf(poll, messages[idx]) = {}
          /\ result = None
    /\ result # None =>
          /\ result[1].success = TRUE
          /\ EntriesOf(poll, messages[idx]) # {}

\* C4, amended: when the processing of a message fails at a step before
\* the calendar insert, no event exists for it; when it fails at any step,
\* the insert included, nothing was returned; a response is returned only
\* after the insert for that message, and its success field is never false.
C4_AtomicityBeforeInsert ==
    /\ (pc = "crashed" /\ failedAt \in MessageSteps \ {"insert"}) =>
          EntriesOf(poll, messages[idx]) = {}
    /\ (pc = "crashed" /\ failedAt \in MessageSteps) =>
          /\ result = None
          /\ Cardinality(EntriesOf(poll, messages[idx])) <= 1
    /\ result # None =>
          /\ result[1].success = TRUE
          /\ EntriesOf(poll, messages[idx]) # {}

\* the extractor answered, the start did not parse
C4_Witness ==
    /\ pc = "crashed"
    /\ failedAt = "resolve"
    /\ extractorCalls = 1
    /\ EntriesOf(poll, messages[idx]) = {}

\* the event handed to the calendar by the one call of handle_new_event
StartOf(i) == calendar[i].event.start.dateTime
EndOf(i) == calendar[i].event.end.dateTime

\* C5: duration default and override - the inserted event ends exactly 60
\* minutes after it starts when duration_minutes is None, and exactly d
\* minutes after it starts when duration_minutes is a positive d.
C5_Duration ==
    \A i \in DOMAIN calendar :
        LET d == details[1].duration_minutes
            span == Instant(EndOf(i)) - Instant(StartOf(i))
        IN  /\ d = None => span = 60
            /\ (d # None /\ d[1] > 0) => span = d[1]

\* an override of 90 minutes whose end lies past the switch to daylight time
C5_Witness ==
    /\ calendar # <<>>
    /\ details[1].duration_minutes = Some(90)
    /\ Instant(StartOf(1)) < EasternDSTStartUTC
    /\ Instant(EndOf(1)) >= EasternDSTStartUTC

\* C6: end after start - every event handed to the calendar ends strictly
\* later than it starts, whatever optional integer the extractor returned
\* as duration_minutes.
C6_EndAfterStart ==
    \A i \in DOMAIN calendar : Instant(EndOf(i)) > Instant(StartOf(i))

\* C7: fixed-timezone resolution - a start without offset keeps its
\* wall-clock date and time and gets the US Eastern offset, on any machine;
\* a start with an offset is the same instant expressed in US Eastern.
C7_FixedTimezone ==
    dt_obj # None =>
        LET d == details[1].date
            r == dt_obj[1]
        IN  /\ r.off[1] = ZoneOffset("America/New_York", Instant(r))
            /\ d.off = None => r.wall = d.wall
            /\ d.off # None => Instant(r) = d.wall - d.off[1]

\* the headers named exactly From, by position
FromPositions(m) == { i \in DOMAIN m.payload.headers :
                        m.payload.headers[i].name = "From" }

Least(S) == CHOOSE i \in S : \A j \in S : i <= j

\* the sender the normalisation is to give for raw message m
FirstFrom(m) ==
    IF FromPositions(m) = {} THEN "(Unknown sender)"
    ELSE m.payload.headers[Least(FromPositions(m))].value

\* C8: attendee singleton - every inserted event has exactly one attendee,
\* the value of the first header named exactly From of the message that
\* caused it, or the placeholder when there is none.
C8_AttendeeSingleton ==
    \A i \in DOMAIN calendar :
        /\ Len(calendar[i].event.attendees) = 1
        /\ calendar[i].event.attendees[1].email
              = FirstFrom(MessageById(mailbox, calendar[i].id))

\* an event for the message with two From headers, and one for the message
\* without any
C8_Witness ==
    /\ \E i \in DOMAIN calendar :
          /\ calendar[i].id = "m1"
          /\ Cardinality(FromPositions(MessageById(mailbox, "m1"))) = 2
    /\ \E i \in DOMAIN calendar :
          calendar[i].event.attendees[1].email = "(Unknown sender)"

\* the top-level parts that are text/plain and carry a payload, by position
PlainPositions(p) == { i \in DOMAIN p.parts :
                         /\ p.parts[i].mimeType = "text/plain"
                         /\ "data" \in DOMAIN p.parts[i].body }

\* the payload the body selection is to pick, <<>> when there is none
SelectedData(m) ==
    LET p == m.payload IN
    IF "parts" \in DOMAIN p
    THEN IF PlainPositions(p) = {} THEN None
         ELSE Some(p.parts[Least(PlainPositions(p))].body.data)
    ELSE IF "body" \in DOMAIN p /\ "data" \in DOMAIN p.body
    THEN Some(p.body.data)
    ELSE None

\* C9: body selection - for every raw message get_message_body returns,
\* without raising: the decoded payload of the first top-level text/plain
\* part with a payload for a multipart message, the decoded top-level
\* payload for a single-part message that has one, and the empty text in
\* every other case.
C9_BodySelection ==
    LET sel == SelectedData(msg[1]) IN
    /\ failedAt # "normalize"
    /\ pc = "route" =>
          user_input[1] = (IF sel = None THEN <<>>
                           ELSE DecodeData(interpreter, sel[1]).value)

\* C10 as stated: the mailbox is unchanged, the second poll lists what the
\* first listed, and every message that led to an insert on the first poll
\* has led to another insert when the second poll has ended.
C10_ReinsertAlways ==
    /\ \A i, j \in DOMAIN pages : pages[i] = pages[j]
    /\ (poll = 2 /\ pc \in {"done", "crashed"}) =>
          \A i \in DOMAIN mailbox :
              EntriesOf(1, mailbox[i].id) # {} => EntriesOf(2, mailbox[i].id) # {}

\* C10, amended: no step changes the mailbox, every poll lists the same
\* page, and an earlier insert for a message never stops a later run that
\* reaches the message's insert from inserting again.
C10_NoReadMarking ==
    /\ [][mailbox' = mailbox]_vars
    /\ [](\A i, j \in DOMAIN pages : pages[i] = pages[j])
    /\ [](pc = "insert" => ENABLED AddEventToCal)
    /\ [][(pc = "insert" /\ pc' = "respond") =>
            /\ Len(calendar') = Len(calendar) + 1
            /\ calendar'[Len(calendar')].id = messages[idx]
            /\ calendar'[Len(calendar')].poll = poll]_vars

\* the same message inserted by the first poll and again by the second
C10_Witness ==
    \E i, j \in DOMAIN calendar :
        /\ calendar[i].id = calendar[j].id
        /\ calendar[i].poll = 1
        /\ calendar[j].poll = 2

====
